---- MODULE Spec2Model ----
(***************************************************************************)
(* iss_spotter: the pipeline nextISSTimesForMyLocation in its callback     *)
(* variant (iss.js) and its promise variant (iss_promised.js).  Each       *)
(* invocation issues up to three HTTP requests (IP echo, geolocation, ISS  *)
(* pass times); the handler that runs when a request completes is one      *)
(* atomic step of the Node.js event loop.  The three remote services are   *)
(* the environment: they answer every request with any response of a       *)
(* bounded universe.                                                       *)
(***************************************************************************)
EXTENDS Integers, Sequences, FiniteSets

VARIABLES
  env,        \* "any": a service may answer anything; "typed": only its own shapes
  variant,    \* per invocation: "none" (not called), "callback" or "promise"
  inflight,   \* per invocation: the set of requests awaiting completion
  reqs,       \* per invocation: the requests issued so far, in order
  resps,      \* per invocation: the responses received so far, in order
  stageOut,   \* per invocation: what each resolver reported, in order
  delivered,  \* per invocation: what the caller was handed, in order
  thrown,     \* per invocation: the exception that escaped a request callback
  printed     \* per invocation: what the handlers of index2.js did, in order

vars == <<env, variant, inflight, reqs, resps, stageOut, delivered, thrown, printed>>

----------------------------------------------------------------------------
(* Bounds                                                                  *)

NumInv == 2          \* invocations that may run interleaved (typed environment)
MaxListLen == 2      \* longest pass list built from all events

Inv == 1 .. NumInv

----------------------------------------------------------------------------
(* JavaScript values                                                       *)

Undef == [t |-> "undefined"]
Null == [t |-> "null"]
Str(s) == [t |-> "string", s |-> s]
Num(n) == [t |-> "number", n |-> n]
Arr(l) == [t |-> "array", l |-> l]
Obj(p) == [t |-> "object", p |-> p]

Fields == {"ip", "status", "lat", "lon", "message", "response"}
NoProps == [f \in Fields |-> Undef]

\* a response body is text: absent, text that is no JSON, or the JSON text of val
NoBody == [kind |-> "none", val |-> Undef]
Garbage == [kind |-> "garbage", val |-> Undef]
Json(v) == [kind |-> "json", val |-> v]

\* an Error object: its constructor name, message text, and what the message embeds
Err(name, text, code, body) ==
  [t |-> "error", name |-> name, text |-> text, code |-> code, body |-> body]

\* the completion of an expression: a value, or an exception
Ret(v) == [thrown |-> FALSE, val |-> v]
Throw(e) == [thrown |-> TRUE, val |-> e]

\* if (v): errors, objects, arrays are truthy; null and undefined are not
Truthy(v) ==
  CASE v.t \in {"undefined", "null"} -> FALSE
    [] v.t = "string" -> v.s # ""
    [] v.t = "number" -> v.n # 0
    [] OTHER -> TRUE

\* JSON.parse(body)
JSONParse(b) ==
  IF b.kind = "json"
    THEN Ret(b.val)
    ELSE Throw(Err("SyntaxError", "Unexpected token in JSON", 0, NoBody))

\* v.f (and the destructuring const { f } = v)
GetProp(v, f) ==
  CASE v.t \in {"undefined", "null"} ->
         Throw(Err("TypeError", "Cannot read property " \o f, 0, NoBody))
    [] v.t = "object" -> Ret(v.p[f])
    [] OTHER -> Ret(Undef)

\* an identifier evaluated in a scope (a function from the declared names)
Ident(scope, name) ==
  IF name \in DOMAIN scope
    THEN Ret(scope[name])
    ELSE Throw(Err("ReferenceError", name \o " is not defined", 0, NoBody))

Digit(d) ==
  CASE d = 0 -> "0" [] d = 1 -> "1" [] d = 2 -> "2" [] d = 3 -> "3" [] d = 4 -> "4"
    [] d = 5 -> "5" [] d = 6 -> "6" [] d = 7 -> "7" [] d = 8 -> "8" [] d = 9 -> "9"

RECURSIVE NatToStr(_)
NatToStr(n) == IF n < 10 THEN Digit(n) ELSE NatToStr(n \div 10) \o Digit(n % 10)

NumToStr(n) == IF n < 0 THEN "-" \o NatToStr(0 - n) ELSE NatToStr(n)

RECURSIVE ArrToStr(_)
ArrToStr(l) ==
  IF l = <<>> THEN ""
  ELSE IF Len(l) = 1 THEN "[object Object]"
  ELSE "[object Object]," \o ArrToStr(Tail(l))

\* `${v}` in a template literal
Interpolate(v) ==
  CASE v.t = "undefined" -> "undefined"
    [] v.t = "null" -> "null"
    [] v.t = "string" -> v.s
    [] v.t = "number" -> NumToStr(v.n)
    [] v.t = "array" -> ArrToStr(v.l)
    [] OTHER -> "[object Object]"

----------------------------------------------------------------------------
(* The environment: requests and the responses a service may give          *)

NoReq == [svc |-> "none", url |-> ""]
Req(svc, url) == [svc |-> svc, url |-> url]

NoErr == "none"
TransportErrs == {"ENOTFOUND", "ETIMEDOUT"}
Statuses == {200, 201, 500}

Event(r, d) == [risetime |-> r, duration |-> d]
Events == {Event(1000, 600), Event(2000, 500)}
\* the count the pass-time request asks for (n=5)
RequestedCount == 5

\* the lists a pass-time body may hold: every short list, and one list of exactly
\* the requested count and one longer (the service is not bound to honour n)
PassLists ==
  UNION {[1 .. n -> Events] : n \in 0 .. MaxListLen}
    \cup {[k \in 1 .. n |-> Event(1000, 600)] : n \in RequestedCount .. RequestedCount + 1}

IpObjs == {Obj([NoProps EXCEPT !["ip"] = Str(a)]) : a \in {"1.2.3.4", "162.245.144.188"}}
Coords == {<<Num(37), Num(-122)>>, <<Num(49), Num(0)>>}
GeoOkObjs ==
  {Obj([NoProps EXCEPT !["status"] = Str("success"), !["lat"] = c[1], !["lon"] = c[2]]) :
     c \in Coords}
GeoFailObjs ==
  {Obj([NoProps EXCEPT !["status"] = Str("fail"), !["message"] = Str("invalid query")])}
PassOkObjs ==
  {Obj([NoProps EXCEPT !["message"] = Str("success"), !["response"] = Arr(l)]) :
     l \in PassLists}
PassFailObjs == {Obj([NoProps EXCEPT !["message"] = Str("failure")])}

IpBodies == {Json(o) : o \in IpObjs}
GeoBodies == {Json(o) : o \in GeoOkObjs \cup GeoFailObjs}
PassBodies == {Json(o) : o \in PassOkObjs \cup PassFailObjs}
OddBodies == {Garbage, Json(Null), Json(Obj(NoProps))}
Bodies == IpBodies \cup GeoBodies \cup PassBodies \cup OddBodies

Failed(e) == [err |-> e, status |-> 0, body |-> NoBody]
Answer(st, b) == [err |-> NoErr, status |-> st, body |-> b]

\* every completion of a request: a transport error, or a status with a body
Responses ==
  {Failed(e) : e \in TransportErrs} \cup {Answer(st, b) : st \in Statuses, b \in Bodies}

\* one response of each class per service, in the shapes that service uses
TypedBodies(svc) ==
  CASE svc = "ip" -> {Garbage, Json(Obj([NoProps EXCEPT !["ip"] = Str("1.2.3.4")]))}
    [] svc = "geo" ->
         {Garbage,
          Json(Obj([NoProps EXCEPT !["status"] = Str("success"),
                                   !["lat"] = Num(37), !["lon"] = Num(-122)]))}
           \cup {Json(o) : o \in GeoFailObjs}
    [] OTHER ->
         {Garbage,
          Json(Obj([NoProps EXCEPT !["message"] = Str("success"),
                                   !["response"] = Arr(<<Event(1000, 600)>>)]))}
           \cup {Json(o) : o \in PassFailObjs}

TypedResponses(svc) ==
  {Failed("ENOTFOUND")} \cup {Answer(500, Garbage)}
    \cup {Answer(200, b) : b \in TypedBodies(svc)}

ResponsesOf(e, svc) == IF e = "any" THEN Responses ELSE TypedResponses(svc)

----------------------------------------------------------------------------
(* iss.js: the callback variant                                            *)

\* what a request callback did: called its callback with (err, data), or threw
Called(err, data) == [kind |-> "callback", err |-> err, data |-> data]
Threw(e) == [kind |-> "throw", err |-> e, data |-> Undef]

\* the err argument the request library passes on a transport failure
SystemError(code) == Err("Error", code, 0, NoBody)

IPURL == "https://api64.ipify.org/?format=json"
GeoURL(ip) == "http://ip-api.com/json/" \o Interpolate(ip)
PassURL(lat, lon) ==
  "http://api.open-notify.org/iss-pass.json?lat=" \o Interpolate(lat)
    \o "&lon=" \o Interpolate(lon) \o "&n=5"

\* fetchMyIP taking only statuses from 400 up as server errors
fetchMyIP_from400(r) ==
  IF r.err # NoErr THEN Called(SystemError(r.err), Null)
  ELSE IF r.status >= 400
    THEN Called(Err("Error", "Status Code when fetching IP. Response:", r.status, r.body),
                Null)
  ELSE LET parsed == JSONParse(r.body) IN
    IF parsed.thrown THEN Threw(parsed.val)
    ELSE LET ip == GetProp(parsed.val, "ip") IN
      IF ip.thrown THEN Threw(ip.val) ELSE Called(Null, ip.val)

\* the request callback of fetchMyIP, run with the completion r
fetchMyIP(r) ==
  IF r.err # NoErr THEN Called(SystemError(r.err), Null)
  ELSE IF r.status # 200
    THEN Called(Err("Error", "Status Code when fetching IP. Response:", r.status, r.body),
                Null)
  ELSE LET parsed == JSONParse(r.body) IN
    IF parsed.thrown THEN Threw(parsed.val)
    ELSE LET ip == GetProp(parsed.val, "ip") IN
      IF ip.thrown THEN Threw(ip.val) ELSE Called(Null, ip.val)

\* fetchCoordsByIP reading the body's status field before the HTTP status
fetchCoordsByIP_bodyFirst(r) ==
  IF r.err # NoErr THEN Called(SystemError(r.err), Null)
  ELSE LET parsed == JSONParse(r.body) IN
    IF parsed.thrown THEN Threw(parsed.val)
    ELSE LET status == GetProp(parsed.val, "status") IN
      IF status.thrown THEN Threw(status.val)
      ELSE IF status.val = Str("fail")
        THEN Called(Err("Error", "Coordinates api returned status fail. Response:",
                        0, r.body), Null)
      ELSE IF r.status # 200
        THEN Called(Err("Error", "Status Code when fetching coordinates. Response:",
                        r.status, r.body), Null)
      ELSE Called(Null,
                  Obj([NoProps EXCEPT !["lat"] = GetProp(parsed.val, "lat").val,
                                      !["lon"] = GetProp(parsed.val, "lon").val]))

\* the request callback of fetchCoordsByIP
fetchCoordsByIP(r) ==
  IF r.err # NoErr THEN Called(SystemError(r.err), Null)
  ELSE IF r.status # 200
    THEN Called(Err("Error", "Status Code when fetching coordinates. Response:",
                    r.status, r.body), Null)
  ELSE LET parsed == JSONParse(r.body) IN
    IF parsed.thrown THEN Threw(parsed.val)
    ELSE LET status == GetProp(parsed.val, "status") IN
      IF status.thrown THEN Threw(status.val)
      ELSE IF status.val = Str("fail")
        THEN Called(Err("Error", "Coordinates api returned status fail. Response:",
                        0, r.body), Null)
      ELSE Called(Null,
                  Obj([NoProps EXCEPT !["lat"] = GetProp(parsed.val, "lat").val,
                                      !["lon"] = GetProp(parsed.val, "lon").val]))

\* fetchISSFlyOverTimes handing over the parsed body instead of its response field
fetchISSFlyOverTimes_wholeBody(r) ==
  IF r.err # NoErr THEN Called(SystemError(r.err), Null)
  ELSE IF r.status # 200
    THEN Called(Err("Error", "Status Code when fetching iss data. Response:",
                    r.status, r.body), Null)
  ELSE LET parsed == JSONParse(r.body) IN
    IF parsed.thrown THEN Threw(parsed.val)
    ELSE LET message == GetProp(parsed.val, "message") IN
      IF message.thrown THEN Threw(message.val)
      ELSE IF message.val = Str("failure")
        THEN Called(Err("Error", "ISS api returned status fail. Response:", 0, r.body),
                    Null)
      ELSE Called(Null, parsed.val)

\* the request callback of fetchISSFlyOverTimes
fetchISSFlyOverTimes(r) ==
  IF r.err # NoErr THEN Called(SystemError(r.err), Null)
  ELSE IF r.status # 200
    THEN Called(Err("Error", "Status Code when fetching iss data. Response:",
                    r.status, r.body), Null)
  ELSE LET parsed == JSONParse(r.body) IN
    IF parsed.thrown THEN Threw(parsed.val)
    ELSE LET message == GetProp(parsed.val, "message") IN
      IF message.thrown THEN Threw(message.val)
      ELSE IF message.val = Str("failure")
        THEN Called(Err("Error", "ISS api returned status fail. Response:", 0, r.body),
                    Null)
      ELSE Called(Null, GetProp(parsed.val, "response").val)

\* what a handler did next: issued a request, handed the caller an outcome, or threw
Issue(req) == [kind |-> "request", req |-> req, how |-> "", err |-> Null, data |-> Undef]
Deliver(how, err, data) ==
  [kind |-> "deliver", req |-> NoReq, how |-> how, err |-> err, data |-> data]
Escape(e) == [kind |-> "throw", req |-> NoReq, how |-> "", err |-> e, data |-> Undef]

Function == [t |-> "function"]

\* callback(err, null) as the failure branches write it: err is looked up in the
\* scope of the arrow function, which declares error and the stage's result only
PassError(scope) ==
  LET err == Ident(scope, "err") IN
    IF err.thrown THEN Escape(err.val) ELSE Deliver("callback", err.val, Null)

\* the callback given to fetchMyIP asking for the IP again after an error
onMyIP_retries(o) ==
  IF o.kind = "throw" THEN Escape(o.err)
  ELSE IF Truthy(o.err) THEN Issue(Req("ip", IPURL))
  ELSE Issue(Req("geo", GeoURL(o.data)))

\* nextISSTimesForMyLocation: the callback given to fetchMyIP
onMyIP(o) ==
  IF o.kind = "throw" THEN Escape(o.err)
  ELSE IF Truthy(o.err)
    THEN PassError([callback |-> Function, error |-> o.err, ip |-> o.data])
  ELSE Issue(Req("geo", GeoURL(o.data)))

\* nextISSTimesForMyLocation: the callback given to fetchCoordsByIP
onCoords(o) ==
  IF o.kind = "throw" THEN Escape(o.err)
  ELSE IF Truthy(o.err)
    THEN PassError([callback |-> Function, error |-> o.err, ip |-> Undef,
                    coords |-> o.data])
  ELSE Issue(Req("pass", PassURL(GetProp(o.data, "lat").val, GetProp(o.data, "lon").val)))

\* nextISSTimesForMyLocation: the callback given to fetchISSFlyOverTimes
onFlyOverTimes(o) ==
  IF o.kind = "throw" THEN Escape(o.err)
  ELSE IF Truthy(o.err)
    THEN PassError([callback |-> Function, error |-> o.err, ip |-> Undef,
                    coords |-> Undef, issTimes |-> o.data])
  ELSE Deliver("callback", Null, o.data)

----------------------------------------------------------------------------
(* iss_promised.js: the promise variant                                    *)

Fulfilled(v) == [kind |-> "fulfilled", err |-> Null, data |-> v]
Rejected(e) == [kind |-> "rejected", err |-> e, data |-> Undef]

\* request-promise-native: the promise of a request settles with the body on a
\* 2xx status and rejects on a transport error or any other status
requestPromise(r) ==
  IF r.err # NoErr THEN Rejected(Err("RequestError", r.err, 0, NoBody))
  ELSE IF r.status < 200 \/ r.status > 299
    THEN Rejected(Err("StatusCodeError", "", r.status, r.body))
  ELSE Fulfilled(r.body)

\* .then(fetchCoordsByIP): skipped when the promise before it rejected
fetchCoordsByIP_promised(s) ==
  IF s.kind = "rejected" THEN Deliver("rejected", s.err, Undef)
  ELSE LET parsed == JSONParse(s.data) IN
    IF parsed.thrown THEN Deliver("rejected", parsed.val, Undef)
    ELSE LET ip == GetProp(parsed.val, "ip") IN
      IF ip.thrown THEN Deliver("rejected", ip.val, Undef)
      ELSE Issue(Req("geo", GeoURL(ip.val)))

\* .then(fetchISSFlyOverTimes)
fetchISSFlyOverTimes_promised(s) ==
  IF s.kind = "rejected" THEN Deliver("rejected", s.err, Undef)
  ELSE LET parsed == JSONParse(s.data) IN
    IF parsed.thrown THEN Deliver("rejected", parsed.val, Undef)
    ELSE LET lat == GetProp(parsed.val, "lat") IN
      IF lat.thrown THEN Deliver("rejected", lat.val, Undef)
      ELSE Issue(Req("pass", PassURL(lat.val, GetProp(parsed.val, "lon").val)))

DropFirst(v) == IF v.t = "array" /\ v.l # <<>> THEN Arr(Tail(v.l)) ELSE v

\* the final handler returning the list without its first element
onData_promised_dropsFirst(s) ==
  IF s.kind = "rejected" THEN Deliver("rejected", s.err, Undef)
  ELSE LET parsed == JSONParse(s.data) IN
    IF parsed.thrown THEN Deliver("rejected", parsed.val, Undef)
    ELSE LET response == GetProp(parsed.val, "response") IN
      IF response.thrown THEN Deliver("rejected", response.val, Undef)
      ELSE Deliver("fulfilled", Null, DropFirst(response.val))

\* .then((data) => { const { response } = JSON.parse(data); return response; })
onData_promised(s) ==
  IF s.kind = "rejected" THEN Deliver("rejected", s.err, Undef)
  ELSE LET parsed == JSONParse(s.data) IN
    IF parsed.thrown THEN Deliver("rejected", parsed.val, Undef)
    ELSE LET response == GetProp(parsed.val, "response") IN
      IF response.thrown THEN Deliver("rejected", response.val, Undef)
      ELSE Deliver("fulfilled", Null, response.val)

----------------------------------------------------------------------------
(* index2.js: the entry script of the promise variant                      *)

\* printTimes.js printPassTimes(passTimes): formats each pass event in turn for
\* display; a value that cannot be iterated makes the iteration throw
printPassTimes(passTimes) ==
  IF passTimes.t = "array"
    THEN Ret(Undef)
    ELSE Throw(Err("TypeError", "passTimes is not iterable", 0, NoBody))

PrintCall(passTimes) == [what |-> "printPassTimes", arg |-> passTimes, text |-> ""]
LogCall(message) == [what |-> "It didn't work: ", arg |-> Undef, text |-> message]

\* nextISSTimesForMyLocation().then(...).catch(...), run with the settled promise d:
\* catch also receives what the then handler throws
index2(d) ==
  IF d.how = "fulfilled"
    THEN LET printing == printPassTimes(d.data) IN
      <<PrintCall(d.data)>>
        \o (IF printing.thrown THEN <<LogCall(printing.val.text)>> ELSE <<>>)
    ELSE <<LogCall(d.err.text)>>

----------------------------------------------------------------------------
(* The state machine                                                       *)

NoExc == Null

InitEnv(e) ==
  /\ env = e
  /\ variant = [i \in Inv |-> "none"]
  /\ inflight = [i \in Inv |-> {}]
  /\ reqs = [i \in Inv |-> <<>>]
  /\ resps = [i \in Inv |-> <<>>]
  /\ stageOut = [i \in Inv |-> <<>>]
  /\ delivered = [i \in Inv |-> <<>>]
  /\ thrown = [i \in Inv |-> NoExc]
  /\ printed = [i \in Inv |-> <<>>]

Init == InitEnv("any")

\* an uncaught exception ends the Node.js process and every invocation in it
Alive == \A i \in Inv : thrown[i] = NoExc

\* an invocation can start; the untyped environment runs one invocation only
Callable(i) == Alive /\ variant[i] = "none" /\ (env = "typed" \/ i = 1)

\* iss.js nextISSTimesForMyLocation(callback) is called: fetchMyIP issues its request
CallCallback(i) ==
  /\ Callable(i)
  /\ variant' = [variant EXCEPT ![i] = "callback"]
  /\ inflight' = [inflight EXCEPT ![i] = @ \cup {Req("ip", IPURL)}]
  /\ reqs' = [reqs EXCEPT ![i] = Append(@, Req("ip", IPURL))]
  /\ UNCHANGED <<env, resps, stageOut, delivered, thrown, printed>>

\* iss_promised.js nextISSTimesForMyLocation() is called: fetchMyIP issues its request
CallPromise(i) ==
  /\ Callable(i)
  /\ variant' = [variant EXCEPT ![i] = "promise"]
  /\ inflight' = [inflight EXCEPT ![i] = @ \cup {Req("ip", IPURL)}]
  /\ reqs' = [reqs EXCEPT ![i] = Append(@, Req("ip", IPURL))]
  /\ UNCHANGED <<env, resps, stageOut, delivered, thrown, printed>>

\* request q of invocation i completed with r; its resolver reported out and the
\* handler chained to it did eff
Complete(i, q, r, out, eff) ==
  /\ resps' = [resps EXCEPT ![i] = Append(@, r)]
  /\ stageOut' = [stageOut EXCEPT ![i] = Append(@, out)]
  /\ inflight' = [inflight EXCEPT ![i] =
       (@ \ {q}) \cup (IF eff.kind = "request" THEN {eff.req} ELSE {})]
  /\ reqs' = [reqs EXCEPT ![i] = IF eff.kind = "request" THEN Append(@, eff.req) ELSE @]
  /\ delivered' = [delivered EXCEPT ![i] =
       IF eff.kind = "deliver"
         THEN Append(@, [how |-> eff.how, err |-> eff.err, data |-> eff.data])
         ELSE @]
  /\ thrown' = [thrown EXCEPT ![i] = IF eff.kind = "throw" THEN eff.err ELSE @]
  /\ UNCHANGED <<env, variant, printed>>

Pending(i, v, q, svc) == Alive /\ variant[i] = v /\ q.svc = svc

MyIPDone(i) ==
  \E q \in inflight[i] :
    /\ Pending(i, "callback", q, "ip")
    /\ \E r \in ResponsesOf(env, "ip") :
         Complete(i, q, r, fetchMyIP(r), onMyIP(fetchMyIP(r)))

CoordsDone(i) ==
  \E q \in inflight[i] :
    /\ Pending(i, "callback", q, "geo")
    /\ \E r \in ResponsesOf(env, "geo") :
         Complete(i, q, r, fetchCoordsByIP(r), onCoords(fetchCoordsByIP(r)))

FlyOverTimesDone(i) ==
  \E q \in inflight[i] :
    /\ Pending(i, "callback", q, "pass")
    /\ \E r \in ResponsesOf(env, "pass") :
         Complete(i, q, r, fetchISSFlyOverTimes(r), onFlyOverTimes(fetchISSFlyOverTimes(r)))

MyIPSettled(i) ==
  \E q \in inflight[i] :
    /\ Pending(i, "promise", q, "ip")
    /\ \E r \in ResponsesOf(env, "ip") :
         Complete(i, q, r, requestPromise(r), fetchCoordsByIP_promised(requestPromise(r)))

CoordsSettled(i) ==
  \E q \in inflight[i] :
    /\ Pending(i, "promise", q, "geo")
    /\ \E r \in ResponsesOf(env, "geo") :
         Complete(i, q, r, requestPromise(r), fetchISSFlyOverTimes_promised(requestPromise(r)))

FlyOverTimesSettled(i) ==
  \E q \in inflight[i] :
    /\ Pending(i, "promise", q, "pass")
    /\ \E r \in ResponsesOf(env, "pass") :
         Complete(i, q, r, requestPromise(r), onData_promised(requestPromise(r)))

\* the promise of invocation i has settled: the handlers index2.js attached run
Index2Settled(i) ==
  /\ Alive
  /\ variant[i] = "promise"
  /\ delivered[i] # <<>>
  /\ printed[i] = <<>>
  /\ printed' = [printed EXCEPT ![i] = index2(delivered[i][1])]
  /\ UNCHANGED <<env, variant, inflight, reqs, resps, stageOut, delivered, thrown>>

Next ==
  \/ \E i \in Inv : CallCallback(i)
  \/ \E i \in Inv : CallPromise(i)
  \/ \E i \in Inv : MyIPDone(i)
  \/ \E i \in Inv : CoordsDone(i)
  \/ \E i \in Inv : FlyOverTimesDone(i)
  \/ \E i \in Inv : MyIPSettled(i)
  \/ \E i \in Inv : CoordsSettled(i)
  \/ \E i \in Inv : FlyOverTimesSettled(i)
  \/ \E i \in Inv : Index2Settled(i)

Spec == Init /\ [][Next]_vars

\* several invocations interleaved, each service answering in its own shapes
InitTyped == InitEnv("typed")
SpecTyped == InitTyped /\ [][Next]_vars

----------------------------------------------------------------------------
(* The vocabulary of the claims                                            *)

WasCalled(i) == variant[i] # "none"
Got(i, k) == Len(resps[i]) >= k
Issued(i, svc) == \E k \in 1 .. Len(reqs[i]) : reqs[i][k].svc = svc

Unparsable(r) == JSONParse(r.body).thrown
Field(r, f) == GetProp(JSONParse(r.body).val, f).val
Is(v, t) == v.t = t

\* a stage fails: transport error, non-200 status, unparsable body, or the
\* failure indicator the service embeds in a 200 response
TransportFailed(r) == r.err # NoErr
Completed200(r) == r.err = NoErr /\ r.status = 200
GeoSaysFail(r) ==
  Completed200(r) /\ JSONParse(r.body).val.t = "object" /\ Field(r, "status") = Str("fail")
PassSaysFailure(r) ==
  Completed200(r) /\ JSONParse(r.body).val.t = "object"
    /\ Field(r, "message") = Str("failure")
IpStageFails(r) == TransportFailed(r) \/ r.status # 200 \/ Unparsable(r)
GeoStageFails(r) == IpStageFails(r) \/ GeoSaysFail(r)

\* a stage succeeds: a 200 response whose body has the shape the service documents
IpStageSucceeds(r) ==
  Completed200(r) /\ r.body.kind = "json" /\ r.body.val.t = "object"
    /\ Is(Field(r, "ip"), "string")
GeoStageSucceeds(r) ==
  Completed200(r) /\ r.body.kind = "json" /\ r.body.val.t = "object"
    /\ Field(r, "status") = Str("success")
    /\ Is(Field(r, "lat"), "number") /\ Is(Field(r, "lon"), "number")
PassStageSucceeds(r) ==
  Completed200(r) /\ r.body.kind = "json" /\ r.body.val.t = "object"
    /\ Field(r, "message") = Str("success") /\ Is(Field(r, "response"), "array")

\* what the caller was handed
IsFailure(d) == Truthy(d.err) /\ ~Is(d.data, "array")
IsSuccess(d) == ~Truthy(d.err)
CallerGotFailure(i) == Len(delivered[i]) = 1 /\ IsFailure(delivered[i][1])
ReportsFailure(o) == o.kind \in {"callback", "rejected"} /\ Truthy(o.err)

----------------------------------------------------------------------------
(* The claims                                                              *)

\* C1: in every run of either variant, when the IP stage fails (transport error,
\* non-200 status, unparsable body), no geolocation and no pass-time request is
\* issued and the caller receives a failure.
C1_IpFailureShortCircuits ==
  \A i \in Inv :
    (Got(i, 1) /\ IpStageFails(resps[i][1])) =>
      /\ ~Issued(i, "geo")
      /\ ~Issued(i, "pass")
      /\ CallerGotFailure(i)

\* C2: in every run of either variant, when the geolocation stage fails (also by a
\* 200 response whose body has status "fail"), no pass-time request is issued and
\* the caller receives a failure.
C2_GeoFailureShortCircuits ==
  \A i \in Inv :
    (Got(i, 2) /\ GeoStageFails(resps[i][2])) =>
      /\ ~Issued(i, "pass")
      /\ CallerGotFailure(i)

\* C3: whenever a stage of the callback variant reports an error E, the caller's
\* callback is invoked with exactly E and a null result.
C3_ErrorPassedVerbatim ==
  \A i \in Inv : \A k \in 1 .. Len(stageOut[i]) :
    (variant[i] = "callback" /\ ReportsFailure(stageOut[i][k])) =>
      delivered[i] = <<[how |-> "callback", err |-> stageOut[i][k].err, data |-> Null]>>

\* C4: for every geolocation response with status 200 and body status "fail", the
\* Geolocation Resolver reports a failure carrying the response body and produces
\* no coordinate pair for the next stage, in both variants.
C4_GeoFailIsFailure ==
  \A i \in Inv :
    (Got(i, 2) /\ GeoSaysFail(resps[i][2])) =>
      /\ ReportsFailure(stageOut[i][2])
      /\ stageOut[i][2].err.body = resps[i][2].body
      /\ ~Issued(i, "pass")

\* C5: for every pass-prediction response with status 200 and body message
\* "failure", the Pass-Time Resolver reports a failure and the caller is never
\* handed a sequence or any other success value, in both variants.
C5_PassFailureIsFailure ==
  \A i \in Inv :
    (Got(i, 3) /\ PassSaysFailure(resps[i][3])) =>
      /\ ReportsFailure(stageOut[i][3])
      /\ \A k \in 1 .. Len(delivered[i]) : ~IsSuccess(delivered[i][k])

\* C6: the caller receives either the pass-event list with no error or one error
\* with no sequence: never both, never a partial result, never a success whose
\* value is not the pass-event list.
C6_ExactlyOneOutcome ==
  \A i \in Inv :
    /\ Len(delivered[i]) <= 1
    /\ \A k \in 1 .. Len(delivered[i]) :
         LET d == delivered[i][k] IN
           \/ IsFailure(d)
           \/ /\ IsSuccess(d)
              /\ Got(i, 3)
              /\ Is(d.data, "array")
              /\ d.data = Field(resps[i][3], "response")

\* C7: when all three stages succeed, the caller is handed exactly the list in the
\* response field of the pass-time body: same elements, same order.
C7_DeliversResponseList ==
  \A i \in Inv :
    (/\ Got(i, 3)
     /\ IpStageSucceeds(resps[i][1])
     /\ GeoStageSucceeds(resps[i][2])
     /\ PassStageSucceeds(resps[i][3])) =>
      /\ Len(delivered[i]) = 1
      /\ IsSuccess(delivered[i][1])
      /\ delivered[i][1].data = resps[i][3].body.val.p["response"]

\* the end-to-end scenario of the specification, in the callback variant
C7_Witness ==
  \E i \in Inv :
    /\ variant[i] = "callback"
    /\ Got(i, 3)
    /\ resps[i][1] = Answer(200, Json(Obj([NoProps EXCEPT !["ip"] = Str("1.2.3.4")])))
    /\ GeoStageSucceeds(resps[i][2])
    /\ Field(resps[i][2], "lat") = Num(37) /\ Field(resps[i][2], "lon") = Num(-122)
    /\ PassStageSucceeds(resps[i][3])
    /\ delivered[i] =
         <<[how |-> "callback", err |-> Null,
            data |-> Arr(<<Event(1000, 600), Event(2000, 500)>>)]>>

\* C8: the stages of one invocation are totally ordered: the geolocation request
\* is issued only after the IP request completed successfully, the pass-time
\* request only after the geolocation request completed successfully, and no two
\* requests of one invocation are in flight at once.
C8_StagesInSequence ==
  \A i \in Inv :
    /\ Cardinality(inflight[i]) <= 1
    /\ Issued(i, "geo") => (Got(i, 1) /\ IpStageSucceeds(resps[i][1]))
    /\ Issued(i, "pass") => (Got(i, 2) /\ GeoStageSucceeds(resps[i][2]))

\* C9: an invocation with no request left in flight has reached SUCCESS or FAILURE
\* and the caller was notified of it.
C9_CallerIsNotified ==
  \A i \in Inv :
    (WasCalled(i) /\ inflight[i] = {}) => Len(delivered[i]) = 1

\* C10: in the callback variant, an IP-echo body that is no JSON or lacks the ip
\* field makes fetchMyIP report an error through its callback (error non-null,
\* result null): no success with an undefined IP, no exception past the callback.
C10_MalformedIpBodyIsError ==
  \A i \in Inv :
    (/\ variant[i] = "callback"
     /\ Got(i, 1)
     /\ Completed200(resps[i][1])
     /\ ~IpStageSucceeds(resps[i][1])) =>
      /\ stageOut[i][1].kind = "callback"
      /\ Truthy(stageOut[i][1].err)
      /\ stageOut[i][1].data = Null

C12_AtMostRequestedCount ==
  \A i \in Inv : \A k \in 1 .. Len(delivered[i]) :
    (IsSuccess(delivered[i][k]) /\ Is(delivered[i][k].data, "array")) =>
      Len(delivered[i][k].data.l) <= RequestedCount

\* C12 as amended: the sequence delivered on success has exactly as many elements
\* as the list in the pass-time body, so at most 5 whenever the service returned at
\* most 5; the code does not truncate a longer list.
C12_LengthOfServiceList ==
  \A i \in Inv : \A k \in 1 .. Len(delivered[i]) :
    (IsSuccess(delivered[i][k]) /\ Is(delivered[i][k].data, "array")) =>
      /\ Got(i, 3)
      /\ Is(Field(resps[i][3], "response"), "array")
      /\ Len(delivered[i][k].data.l) = Len(Field(resps[i][3], "response").l)
      /\ (Len(Field(resps[i][3], "response").l) <= RequestedCount =>
            Len(delivered[i][k].data.l) <= RequestedCount)

\* the service honoured n=5 with a full list and the caller was handed 5 events
C12_Witness ==
  \E i \in Inv :
    /\ Got(i, 3)
    /\ PassStageSucceeds(resps[i][3])
    /\ Len(Field(resps[i][3], "response").l) = RequestedCount
    /\ Len(delivered[i]) = 1
    /\ IsSuccess(delivered[i][1])
    /\ Is(delivered[i][1].data, "array")
    /\ Len(delivered[i][1].data.l) = RequestedCount

\* the completion of a request of invocation i, whichever stage it is in
StepOf(i) ==
  \/ MyIPDone(i) \/ CoordsDone(i) \/ FlyOverTimesDone(i)
  \/ MyIPSettled(i) \/ CoordsSettled(i) \/ FlyOverTimesSettled(i)

\* C13: invocations running interleaved do not interfere: what an invocation
\* issued, reported and delivered depends on its variant and its own responses
\* only, and a request of it that is in flight can complete whatever the other
\* invocations did, as it could had the invocation run alone.
C13_NoInterference ==
  \A i \in Inv :
    /\ inflight[i] # {} => ENABLED StepOf(i)
    /\ \A j \in Inv :
         (variant[i] = variant[j] /\ resps[i] = resps[j]) =>
           /\ reqs[i] = reqs[j]
           /\ stageOut[i] = stageOut[j]
           /\ delivered[i] = delivered[j]
           /\ thrown[i] = thrown[j]

\* C14: data flows unchanged between the stages: the geolocation request carries
\* exactly the ip string of the IP-echo response, and the pass-time request carries
\* exactly the lat and lon numbers of the geolocation response with n=5; no
\* pass-time request carries a latitude or longitude the service did not return.
C14_DataFlowsUnchanged ==
  \A i \in Inv : \A k \in 1 .. Len(reqs[i]) :
    /\ reqs[i][k].svc = "geo" =>
         /\ Got(i, 1)
         /\ JSONParse(resps[i][1].body).val.t = "object"
         /\ Is(Field(resps[i][1], "ip"), "string")
         /\ reqs[i][k].url = "http://ip-api.com/json/" \o Field(resps[i][1], "ip").s
    /\ reqs[i][k].svc = "pass" =>
         /\ Got(i, 2)
         /\ JSONParse(resps[i][2].body).val.t = "object"
         /\ Is(Field(resps[i][2], "lat"), "number")
         /\ Is(Field(resps[i][2], "lon"), "number")
         /\ reqs[i][k].url =
              "http://api.open-notify.org/iss-pass.json?lat="
                \o NumToStr(Field(resps[i][2], "lat").n)
                \o "&lon=" \o NumToStr(Field(resps[i][2], "lon").n) \o "&n=5"

\* the orchestrator's state: 0 not called, 1 PENDING_IP, 2 PENDING_COORDS,
\* 3 PENDING_PASSES, 4 terminal (SUCCESS or FAILURE)
Phase(i) ==
  IF ~WasCalled(i) THEN 0
  ELSE IF \E q \in inflight[i] : q.svc = "ip" THEN 1
  ELSE IF \E q \in inflight[i] : q.svc = "geo" THEN 2
  ELSE IF \E q \in inflight[i] : q.svc = "pass" THEN 3
  ELSE 4

Endpoints == <<"ip", "geo", "pass">>

\* each endpoint requested at most once, in the order of the stages
RequestedInOrder(i) ==
  /\ Len(reqs[i]) <= 3
  /\ \A k \in 1 .. Len(reqs[i]) : reqs[i][k].svc = Endpoints[k]

\* a step moves an invocation forward or leaves it alone, and leaves a terminal
\* invocation's requests and outcome as they are
MovesForward(i) ==
  /\ Phase(i)' >= Phase(i)
  /\ <<inflight[i], reqs[i], resps[i]>>' # <<inflight[i], reqs[i], resps[i]>> =>
       Phase(i)' > Phase(i)
  /\ Phase(i) = 4 =>
       /\ reqs'[i] = reqs[i]
       /\ inflight'[i] = {}
       /\ delivered'[i] = delivered[i]
       /\ thrown'[i] = thrown[i]

\* C15: the orchestrator only moves forward through PENDING_IP, PENDING_COORDS,
\* PENDING_PASSES to a terminal state: each endpoint is requested at most once, no
\* state is revisited, and once terminal no request is issued and the outcome
\* never changes.
C15_ForwardOnly ==
  /\ [](\A i \in Inv : RequestedInOrder(i))
  /\ [][\A i \in Inv : MovesForward(i)]_vars

\* an invocation went through all three stages and is terminal
C15_Witness ==
  \E i \in Inv : Phase(i) = 4 /\ Len(reqs[i]) = 3 /\ Len(resps[i]) = 3

\* the terminal outcome the caller observed: SUCCESS with a value, FAILURE, or none
Outcome(i) ==
  IF delivered[i] = <<>> THEN [kind |-> "none", data |-> Undef]
  ELSE IF IsSuccess(delivered[i][1]) THEN [kind |-> "SUCCESS", data |-> delivered[i][1].data]
  ELSE [kind |-> "FAILURE", data |-> Undef]

\* C16: the callback variant and the promise variant are observably equivalent:
\* fed the same sequence of service responses they have issued the same requests
\* in the same order and ended in the same outcome.
C16_VariantsEquivalent ==
  \A i \in Inv : \A j \in Inv :
    (variant[i] = "callback" /\ variant[j] = "promise" /\ resps[i] = resps[j]) =>
      /\ reqs[i] = reqs[j]
      /\ Outcome(i) = Outcome(j)

\* C17: in the callback variant every callback is invoked exactly once per call:
\* each resolver whose request completed invoked its callback once, and the
\* callback given to nextISSTimesForMyLocation is invoked once when the invocation
\* ends and never twice, whatever the completions were.
C17_CallbacksOnce ==
  \A i \in Inv :
    variant[i] = "callback" =>
      /\ \A k \in 1 .. Len(stageOut[i]) : stageOut[i][k].kind = "callback"
      /\ Len(delivered[i]) <= 1
      /\ Phase(i) = 4 => Len(delivered[i]) = 1

\* the failure indicator stage k's service embeds in a 200 body
SaysFail(k, r) ==
  CASE k = 2 -> GeoSaysFail(r)
    [] k = 3 -> PassSaysFailure(r)
    [] OTHER -> FALSE

C19_ExactlyOneHandler ==
  \A i \in Inv :
    (variant[i] = "promise" /\ printed[i] # <<>>) =>
      LET d == delivered[i][1] IN
        /\ d.how = "fulfilled" => printed[i] = <<PrintCall(d.data)>>
        /\ d.how = "rejected" => printed[i] = <<LogCall(d.err.text)>>

====
